---- MODULE Spec2Model ----
(***************************************************************************)
(* A model of plot_glm_day.py: main() parses one date argument, calls      *)
(* fetch_glm_day() which lists the 24 hour prefixes of that day on the     *)
(* remote store, opens every listed object in turn, appends its three      *)
(* event arrays to three accumulators and concatenates them, and then      *)
(* calls plot_events() on the result.                                      *)
(*                                                                         *)
(* One action per statement of the script; pc is the statement the         *)
(* interpreter is at.  The remote store and the command line are the       *)
(* environment: the listing of an hour, the arrays inside an object and    *)
(* the faults of the remote calls are chosen when the script asks.         *)
(***************************************************************************)
EXTENDS Integers, Sequences, FiniteSets, TLC

VARIABLES
    argv,     \* the command-line token given as the date argument
    pc,       \* the statement about to run, or "done" / "exited" / "raised"
    args,     \* args.date after parse_args
    date,     \* the datetime built by strptime
    fs,       \* TRUE once the S3FileSystem client exists
    hour,     \* the loop variable of `for hour in range(24)`
    files,    \* sorted listing of the current hour
    fi,       \* position of `for path in files`
    f,        \* remote file handles that are open
    ds,       \* datasets that are open
    lats,     \* accumulator: list of arrays
    lons,     \* accumulator: list of arrays
    energy,   \* accumulator: list of arrays
    ret,      \* what fetch_glm_day returned to main
    err,      \* the exception that ended the run
    fault,    \* history: the fault the environment raised
    listed,   \* history: the calls of fs.glob, with what each returned
    objs,     \* history: the objects opened, with the lengths read
    plotted   \* history: the calls of plot_events

vars == <<argv, pc, args, date, fs, hour, files, fi, f, ds, lats, lons,
          energy, ret, err, fault, listed, objs, plotted>>

----------------------------------------------------------------------------
(* Bounds of the environment *)

\* objects the store holds for the whole day
MaxObjects == 2
\* events in one field of one object
MaxEvents == 2

\* range(24)
NumHours == 24

\* hours of the day in which the store holds objects: the first and the last
DataHours == {0, NumHours - 1}

\* object names (without the common ".nc"), as character codes: "ab", "b"
Names == {<<1, 2>>, <<2>>}

\* length of a second or third field of an object whose event_lat has n
\* entries: the same (well-formed) or one more (ragged)
FieldLens(n) == {n} \cup {k \in 0..MaxEvents : k = n + 1}

----------------------------------------------------------------------------
(* Text *)

DigitChars == <<"0", "1", "2", "3", "4", "5", "6", "7", "8", "9">>
Digit == {DigitChars[i] : i \in 1..10}
DigitVal(c) == (CHOOSE i \in 1..10 : DigitChars[i] = c) - 1

IsDigit(s, i) == i <= Len(s) /\ s[i] \in Digit
IsChar(s, i, c) == i <= Len(s) /\ s[i] = c
InRange(s, i, lo, hi) == IsDigit(s, i) /\ DigitVal(s[i]) \in lo..hi

\* the date arguments tried
ArgSamples ==
    { <<"2", "0", "2", "4", "-", "0", "3", "-", "0", "1">>,
      <<"2", "0", "2", "4", "/", "0", "1", "/", "0", "1">>,
      <<"2", "0", "2", "4", "-", "1", "-", "5">>,
      <<"2", "0", "2", "3", "-", "0", "2", "-", "2", "9">>,
      <<"2", "0", "2", "4", "-", "1", "3", "-", "0", "1">>,
      <<"2", "0", "2", "4", "-", "0", "1", "-", "0", "1", "x">>,
      <<"2", "0", "2", "4", "0", "1", "0", "1">>,
      <<"-", "x">>,
      <<"-", "h">>,
      <<"-", "5">>,
      <<>> }

----------------------------------------------------------------------------
(* argparse: one positional argument, no options but -h/--help *)

NegativeNumberLike(tok) ==
    /\ Len(tok) >= 2
    /\ tok[1] = "-"
    /\ \A i \in 2..Len(tok) : tok[i] \in Digit

\* "positional", "help" or "usage_error"
ParseArgsOutcome(tok) ==
    IF tok = <<"-", "h">> \/ tok = <<"-", "-", "h", "e", "l", "p">>
    THEN "help"
    ELSE IF /\ Len(tok) >= 2
            /\ tok[1] = "-"
            /\ ~NegativeNumberLike(tok)
            /\ \A i \in 1..Len(tok) : tok[i] # " "
    THEN "usage_error"
    ELSE "positional"

----------------------------------------------------------------------------
(* datetime.strptime(s, "%Y-%m-%d") *)

IsLeap(y) == (y % 4 = 0 /\ y % 100 # 0) \/ y % 400 = 0

DaysInMonth(y, m) ==
    IF m = 2 THEN (IF IsLeap(y) THEN 29 ELSE 28)
    ELSE IF m \in {4, 6, 9, 11} THEN 30 ELSE 31

\* %m is (1[0-2]|0[1-9]|[1-9]); the "-" of the format must follow it
MonthLen(s, p) ==
    IF /\ \/ (IsChar(s, p, "1") /\ InRange(s, p + 1, 0, 2))
          \/ (IsChar(s, p, "0") /\ InRange(s, p + 1, 1, 9))
       /\ IsChar(s, p + 2, "-")
    THEN 2
    ELSE IF InRange(s, p, 1, 9) /\ IsChar(s, p + 1, "-")
    THEN 1
    ELSE 0

\* %d is (3[01]|[12]\d|0[1-9]|[1-9]| [1-9]), the first alternative that fits
DayLen(s, p) ==
    IF \/ (IsChar(s, p, "3") /\ InRange(s, p + 1, 0, 1))
       \/ (InRange(s, p, 1, 2) /\ IsDigit(s, p + 1))
       \/ (IsChar(s, p, "0") /\ InRange(s, p + 1, 1, 9))
    THEN 2
    ELSE IF InRange(s, p, 1, 9)
    THEN 1
    ELSE IF IsChar(s, p, " ") /\ InRange(s, p + 1, 1, 9)
    THEN 2
    ELSE 0

RECURSIVE ToNat(_)
ToNat(s) ==
    IF s = <<>> THEN 0
    ELSE IF s[Len(s)] = " " THEN ToNat(SubSeq(s, 1, Len(s) - 1))
    ELSE 10 * ToNat(SubSeq(s, 1, Len(s) - 1)) + DigitVal(s[Len(s)])

NoDate == [year |-> 0, month |-> 0, day |-> 0]

\* the datetime, or NoDate when strptime raises ValueError
strptime(s) ==
    IF ~(/\ \A i \in 1..4 : IsDigit(s, i)
         /\ IsChar(s, 5, "-"))
    THEN NoDate
    ELSE LET ml == MonthLen(s, 6)
             dl == DayLen(s, 7 + ml)
             y  == ToNat(SubSeq(s, 1, 4))
             m  == ToNat(SubSeq(s, 6, 5 + ml))
             d  == ToNat(SubSeq(s, 7 + ml, 6 + ml + dl))
         IN  IF ml = 0 \/ dl = 0 THEN NoDate            \* does not match format
             ELSE IF 6 + ml + dl # Len(s) THEN NoDate   \* unconverted data remains
             ELSE IF y < 1 \/ d > DaysInMonth(y, m) THEN NoDate
             ELSE [year |-> y, month |-> m, day |-> d]

----------------------------------------------------------------------------
(* strftime and the prefix f-string *)

RECURSIVE DaysBefore(_, _)
DaysBefore(y, m) ==
    IF m = 1 THEN 0 ELSE DaysBefore(y, m - 1) + DaysInMonth(y, m - 1)

DayOfYear(d) == DaysBefore(d.year, d.month) + d.day

RECURSIVE Decimal(_)
Decimal(n) ==
    IF n < 10 THEN <<DigitChars[n + 1]>>
    ELSE Decimal(n \div 10) \o <<DigitChars[(n % 10) + 1]>>

RECURSIVE ZeroPad(_, _)
ZeroPad(s, width) == IF Len(s) >= width THEN s ELSE ZeroPad(<<"0">> \o s, width)

\* f"noaa-goes16/GLM-L2-LCFA/{year}/{doy}/{hour:02d}/"
Prefix(d, h) ==
    <<"noaa-goes16/GLM-L2-LCFA/">> \o Decimal(d.year) \o <<"/">>
        \o ZeroPad(Decimal(DayOfYear(d)), 3) \o <<"/">>
        \o ZeroPad(Decimal(h), 2) \o <<"/">>

----------------------------------------------------------------------------
(* sorted(): the paths of one listing share their prefix, so their order   *)
(* is the lexical order of the names                                       *)

RECURSIVE LexLess(_, _)
LexLess(a, b) ==
    IF b = <<>> THEN FALSE
    ELSE IF a = <<>> THEN TRUE
    ELSE IF Head(a) # Head(b) THEN Head(a) < Head(b)
    ELSE LexLess(Tail(a), Tail(b))

PathLess(p, q) == LexLess(p.name, q.name)

RECURSIVE Insert(_, _)
Insert(x, s) ==
    IF s = <<>> THEN <<x>>
    ELSE IF PathLess(x, Head(s)) THEN <<x>> \o s
    ELSE <<Head(s)>> \o Insert(x, Tail(s))

\* a listing consumed in the order fs.glob gave it
sorted_asListed(s) == s

RECURSIVE sorted(_)
sorted(s) == IF s = <<>> THEN <<>> ELSE Insert(Head(s), sorted(Tail(s)))

----------------------------------------------------------------------------
(* arrays *)

\* ds[field].values of the object at path p, when the field holds n entries
Values(p, field, n) == [i \in 1..n |-> [path |-> p, field |-> field, i |-> i]]

RECURSIVE Flatten(_)
Flatten(l) == IF l = <<>> THEN <<>> ELSE Head(l) \o Flatten(Tail(l))

\* an empty list of arrays taken for an empty array
ConcatRaises_never(l) == FALSE

\* a concatenation that stops one array short
np_concatenate_dropsLast(l) == Flatten(SubSeq(l, 1, Len(l) - 1))

\* np.concatenate raises ValueError on an empty list of arrays
ConcatRaises(l) == l = <<>>
np_concatenate(l) == Flatten(l)

----------------------------------------------------------------------------
(* the environment's answers *)

Perms(S) ==
    {s \in [1..Cardinality(S) -> S] : \A i, j \in 1..Cardinality(S) : s[i] = s[j] => i = j}

\* what fs.glob may return for hour h: the matching objects, in any order
Listings(h, budget) ==
    IF h \in DataHours
    THEN UNION { {[i \in 1..Len(s) |-> [hour |-> h, name |-> s[i]]] : s \in Perms(S)} :
                 S \in {T \in SUBSET Names : Cardinality(T) <= budget} }
    ELSE {<<>>}

ListFaults == {"OSError", "PermissionError"}

----------------------------------------------------------------------------
(* errors *)

NoErr == [type |-> "", site |-> "", prefix |-> <<>>, cause |-> ""]
NoFault == [type |-> "", site |-> ""]
NoRet == [returned |-> FALSE, lat |-> <<>>, lon |-> <<>>, energy |-> <<>>]

Error(type, site) == [type |-> type, site |-> site, prefix |-> <<>>, cause |-> ""]

\* an exception leaves the function: nothing else of the script runs
Raise(e) == pc' = "raised" /\ err' = e

----------------------------------------------------------------------------
Init ==
    /\ argv \in ArgSamples
    /\ pc = "parse_args"
    /\ args = <<>>
    /\ date = NoDate
    /\ fs = FALSE
    /\ hour = 0
    /\ files = <<>>
    /\ fi = 1
    /\ f = {}
    /\ ds = {}
    /\ lats = <<>>
    /\ lons = <<>>
    /\ energy = <<>>
    /\ ret = NoRet
    /\ err = NoErr
    /\ fault = NoFault
    /\ listed = <<>>
    /\ objs = <<>>
    /\ plotted = <<>>

----------------------------------------------------------------------------
(* main *)

\* args = parser.parse_args()
ParseArgs ==
    /\ pc = "parse_args"
    /\ LET out == ParseArgsOutcome(argv)
       IN  IF out = "positional"
           THEN pc' = "strptime" /\ args' = argv /\ err' = err
           ELSE IF out = "help"
           THEN pc' = "exited" /\ args' = args /\ err' = err
           ELSE Raise(Error("SystemExit", "parse_args")) /\ args' = args
    /\ UNCHANGED <<argv, date, fs, hour, files, fi, f, ds, lats, lons, energy,
                   ret, fault, listed, objs, plotted>>

\* a date that does not parse replaced by a default day
Strptime_fallsBack ==
    /\ pc = "strptime"
    /\ date' = IF strptime(args) = NoDate
               THEN [year |-> 2024, month |-> 1, day |-> 1]
               ELSE strptime(args)
    /\ pc' = "fetch"
    /\ UNCHANGED <<argv, args, fs, hour, files, fi, f, ds, lats, lons, energy,
                   ret, err, fault, listed, objs, plotted>>

\* date = dt.datetime.strptime(args.date, "%Y-%m-%d")
Strptime ==
    /\ pc = "strptime"
    /\ IF strptime(args) = NoDate
       THEN Raise(Error("ValueError", "strptime")) /\ date' = date
       ELSE pc' = "fetch" /\ date' = strptime(args) /\ err' = err
    /\ UNCHANGED <<argv, args, fs, hour, files, fi, f, ds, lats, lons, energy,
                   ret, fault, listed, objs, plotted>>

----------------------------------------------------------------------------
(* fetch_glm_day *)

\* fs = s3fs.S3FileSystem(anon=True); lats = []; lons = []; energy = []
FetchBegin ==
    /\ pc = "fetch"
    /\ fs' = TRUE
    /\ lats' = <<>> /\ lons' = <<>> /\ energy' = <<>>
    /\ hour' = 0
    /\ pc' = "glob"
    /\ UNCHANGED <<argv, args, date, files, fi, f, ds, ret, err, fault, listed,
                   objs, plotted>>

\* files = sorted(fs.glob(prefix + "*.nc"))
Glob ==
    /\ pc = "glob"
    /\ hour < NumHours
    /\ \E raw \in Listings(hour, MaxObjects - Len(objs)) :
           files' = sorted(raw)
    /\ fi' = 1
    /\ listed' = Append(listed, [hour |-> hour, ok |-> TRUE, files |-> files'])
    /\ pc' = "for_path"
    /\ UNCHANGED <<argv, args, date, fs, hour, f, ds, lats, lons, energy, ret,
                   err, fault, objs, plotted>>

\* a listing fault that skips the hour
GlobFault_skipsHour ==
    /\ pc = "glob"
    /\ hour < NumHours
    /\ \E exc \in ListFaults : fault' = [type |-> exc, site |-> "glob"]
    /\ files' = <<>>
    /\ fi' = 1
    /\ listed' = Append(listed, [hour |-> hour, ok |-> FALSE, files |-> <<>>])
    /\ pc' = "for_path"
    /\ UNCHANGED <<argv, args, date, fs, hour, f, ds, lats, lons, energy, ret,
                   err, objs, plotted>>

\* except Exception as exc: raise RuntimeError(f"Failed to list files for {prefix}: {exc}")
GlobFault ==
    /\ pc = "glob"
    /\ hour < NumHours
    /\ \E exc \in ListFaults :
         /\ fault' = [type |-> exc, site |-> "glob"]
         /\ Raise([type |-> "RuntimeError", site |-> "glob",
                   prefix |-> Prefix(date, hour), cause |-> exc])
    /\ listed' = Append(listed, [hour |-> hour, ok |-> FALSE, files |-> <<>>])
    /\ UNCHANGED <<argv, args, date, fs, hour, files, fi, f, ds, lats, lons,
                   energy, ret, objs, plotted>>

\* with fs.open(path, mode="rb") as f:
Open ==
    /\ pc = "for_path"
    /\ fi <= Len(files)
    /\ f' = f \cup {files[fi]}
    /\ objs' = Append(objs, [path |-> files[fi], event_lat |-> -1,
                             event_lon |-> -1, event_energy |-> -1])
    /\ pc' = "open_dataset"
    /\ UNCHANGED <<argv, args, date, fs, hour, files, fi, ds, lats, lons,
                   energy, ret, err, fault, listed, plotted>>

\* fs.open raises
OpenFault ==
    /\ pc = "for_path"
    /\ fi <= Len(files)
    /\ fault' = [type |-> "OSError", site |-> "open"]
    /\ Raise(Error("OSError", "open"))
    /\ UNCHANGED <<argv, args, date, fs, hour, files, fi, f, ds, lats, lons,
                   energy, ret, listed, objs, plotted>>

\* the listing of the hour is exhausted: next hour
EndHour ==
    /\ pc = "for_path"
    /\ fi > Len(files)
    /\ hour' = hour + 1
    /\ pc' = "glob"
    /\ UNCHANGED <<argv, args, date, fs, files, fi, f, ds, lats, lons, energy,
                   ret, err, fault, listed, objs, plotted>>

\* ds = xr.open_dataset(f)
OpenDataset ==
    /\ pc = "open_dataset"
    /\ ds' = ds \cup {files[fi]}
    /\ pc' = "event_lat"
    /\ UNCHANGED <<argv, args, date, fs, hour, files, fi, f, lats, lons,
                   energy, ret, err, fault, listed, objs, plotted>>

\* xr.open_dataset raises on a malformed object; the with block closes f
OpenDatasetFault ==
    /\ pc = "open_dataset"
    /\ fault' = [type |-> "ValueError", site |-> "open_dataset"]
    /\ Raise(Error("ValueError", "open_dataset"))
    /\ f' = f \ {files[fi]}
    /\ UNCHANGED <<argv, args, date, fs, hour, files, fi, ds, lats, lons,
                   energy, ret, listed, objs, plotted>>

\* the lengths the environment may give the field read at pc
LensAt(field) ==
    IF field = "event_lat" THEN 0..MaxEvents
    ELSE FieldLens(objs[Len(objs)].event_lat)

\* lats.append(ds["event_lat"].values)
ReadLat ==
    /\ pc = "event_lat"
    /\ \E n \in LensAt("event_lat") :
         /\ lats' = Append(lats, Values(files[fi], "event_lat", n))
         /\ objs' = [objs EXCEPT ![Len(objs)].event_lat = n]
    /\ pc' = "event_lon"
    /\ UNCHANGED <<argv, args, date, fs, hour, files, fi, f, ds, lons, energy,
                   ret, err, fault, listed, plotted>>

\* lons.append(ds["event_lon"].values)
ReadLon ==
    /\ pc = "event_lon"
    /\ \E n \in LensAt("event_lon") :
         /\ lons' = Append(lons, Values(files[fi], "event_lon", n))
         /\ objs' = [objs EXCEPT ![Len(objs)].event_lon = n]
    /\ pc' = "event_energy"
    /\ UNCHANGED <<argv, args, date, fs, hour, files, fi, f, ds, lats, energy,
                   ret, err, fault, listed, plotted>>

\* energy.append(ds["event_energy"].values)
ReadEnergy ==
    /\ pc = "event_energy"
    /\ \E n \in LensAt("event_energy") :
         /\ energy' = Append(energy, Values(files[fi], "event_energy", n))
         /\ objs' = [objs EXCEPT ![Len(objs)].event_energy = n]
    /\ pc' = "ds_close"
    /\ UNCHANGED <<argv, args, date, fs, hour, files, fi, f, ds, lats, lons,
                   ret, err, fault, listed, plotted>>

\* a missing field caught by the handler of the listing
FieldMissing_wrapped ==
    /\ pc \in {"event_lat", "event_lon", "event_energy"}
    /\ fault' = [type |-> "KeyError", site |-> pc]
    /\ Raise([type |-> "RuntimeError", site |-> "glob",
              prefix |-> Prefix(date, hour), cause |-> "KeyError"])
    /\ f' = f \ {files[fi]}
    /\ UNCHANGED <<argv, args, date, fs, hour, files, fi, ds, lats, lons,
                   energy, ret, listed, objs, plotted>>

\* ds[name] raises KeyError: ds.close() is skipped, the with block closes f
FieldMissing ==
    /\ pc \in {"event_lat", "event_lon", "event_energy"}
    /\ fault' = [type |-> "KeyError", site |-> pc]
    /\ Raise(Error("KeyError", pc))
    /\ f' = f \ {files[fi]}
    /\ UNCHANGED <<argv, args, date, fs, hour, files, fi, ds, lats, lons,
                   energy, ret, listed, objs, plotted>>

\* ds.close()
CloseDataset ==
    /\ pc = "ds_close"
    /\ ds' = ds \ {files[fi]}
    /\ pc' = "exit_with"
    /\ UNCHANGED <<argv, args, date, fs, hour, files, fi, f, lats, lons,
                   energy, ret, err, fault, listed, objs, plotted>>

\* the with block ends: f is closed; next path
ExitWith ==
    /\ pc = "exit_with"
    /\ f' = f \ {files[fi]}
    /\ fi' = fi + 1
    /\ pc' = "for_path"
    /\ UNCHANGED <<argv, args, date, fs, hour, files, ds, lats, lons, energy,
                   ret, err, fault, listed, objs, plotted>>

\* return (np.concatenate(lats), np.concatenate(lons), np.concatenate(energy))
Return ==
    /\ pc = "glob"
    /\ hour = NumHours
    /\ IF ConcatRaises(lats) \/ ConcatRaises(lons) \/ ConcatRaises(energy)
       THEN Raise(Error("ValueError", "concatenate")) /\ ret' = ret
       ELSE /\ ret' = [returned |-> TRUE,
                       lat |-> np_concatenate(lats),
                       lon |-> np_concatenate(lons),
                       energy |-> np_concatenate(energy)]
            /\ pc' = "plot_events"
            /\ err' = err
    /\ UNCHANGED <<argv, args, date, fs, hour, files, fi, f, ds, lats, lons,
                   energy, fault, listed, objs, plotted>>

----------------------------------------------------------------------------
(* plot_events(lat, lon, energy, date) *)

PlotEvents ==
    /\ pc = "plot_events"
    /\ plotted' = Append(plotted, [lat |-> ret.lat, lon |-> ret.lon,
                                   energy |-> ret.energy, date |-> date])
    /\ pc' = "done"
    /\ UNCHANGED <<argv, args, date, fs, hour, files, fi, f, ds, lats, lons,
                   energy, ret, err, fault, listed, objs>>

----------------------------------------------------------------------------
Next ==
    \/ ParseArgs
    \/ Strptime
    \/ FetchBegin
    \/ Glob
    \/ GlobFault
    \/ Open
    \/ OpenFault
    \/ EndHour
    \/ OpenDataset
    \/ OpenDatasetFault
    \/ ReadLat
    \/ ReadLon
    \/ ReadEnergy
    \/ FieldMissing
    \/ CloseDataset
    \/ ExitWith
    \/ Return
    \/ PlotEvents

Spec == Init /\ [][Next]_vars

----------------------------------------------------------------------------
(* Vocabulary of the properties *)

Terminated == pc \in {"done", "exited", "raised"}

\* the textual form YYYY-MM-DD: four digits, two digits, two digits
IsYMDForm(s) ==
    /\ Len(s) = 10
    /\ \A i \in {1, 2, 3, 4, 6, 7, 9, 10} : s[i] \in Digit
    /\ s[5] = "-" /\ s[8] = "-"

\* the argument is turned down: a usage error of argparse or a ValueError of strptime
Rejected(s) ==
    \/ ParseArgsOutcome(s) = "usage_error"
    \/ ParseArgsOutcome(s) = "positional" /\ strptime(s) = NoDate

NoNetwork == ~fs /\ listed = <<>> /\ objs = <<>> /\ f = {} /\ ds = {}

\* every one of the 24 prefixes was listed, without fault, and held nothing
AllHoursListedEmpty ==
    /\ Len(listed) = NumHours
    /\ \A i \in 1..Len(listed) : listed[i].ok /\ listed[i].files = <<>>

\* every object opened held three fields of one length
WellFormedObjs ==
    \A i \in 1..Len(objs) :
        /\ objs[i].event_lat >= 0
        /\ objs[i].event_lon = objs[i].event_lat
        /\ objs[i].event_energy = objs[i].event_lat

RECURSIVE SumEvents(_)
SumEvents(os) ==
    IF os = <<>> THEN 0 ELSE Head(os).event_lat + SumEvents(Tail(os))

RECURSIVE FilesOf(_)
FilesOf(ls) == IF ls = <<>> THEN <<>> ELSE Head(ls).files \o FilesOf(Tail(ls))

\* the arrays of the opened objects, one after the other
RECURSIVE ArraysOf(_, _)
ArraysOf(os, field) ==
    IF os = <<>> THEN <<>>
    ELSE Values(Head(os).path, field, Head(os)[field]) \o ArraysOf(Tail(os), field)

EmptyTriple == [returned |-> TRUE, lat |-> <<>>, lon |-> <<>>, energy |-> <<>>]

ObjectFaultSites ==
    {"open", "open_dataset", "event_lat", "event_lon", "event_energy"}

----------------------------------------------------------------------------
(* C1: a day whose 24 listings all succeed and are all empty ends with     *)
(* fetch_glm_day having returned three empty sequences and plot_events     *)
(* having been called, with no error anywhere in the run.                  *)
C1_EmptyDayPlotsEmptyScatter ==
    (AllHoursListedEmpty /\ Terminated) =>
        /\ pc = "done"
        /\ err = NoErr
        /\ ret = EmptyTriple
        /\ Len(plotted) = 1

(* C2: whenever fetch_glm_day returns and every opened object held three   *)
(* fields of equal length, the three returned sequences have one length,   *)
(* the sum of the event counts of the objects opened.                      *)
C2_ConcatenationPreservesCount ==
    (ret.returned /\ WellFormedObjs) =>
        /\ Len(ret.lat) = SumEvents(objs)
        /\ Len(ret.lon) = SumEvents(objs)
        /\ Len(ret.energy) = SumEvents(objs)

\* returned with objects in two different hours, the hours between empty
C2_Witness ==
    /\ ret.returned /\ WellFormedObjs
    /\ Len(objs) = 2
    /\ objs[1].path.hour # objs[2].path.hour
    /\ objs[1].event_lat = 2 /\ objs[2].event_lat = 1
    /\ Len(ret.lat) = 3

(* C3: a fault of fs.glob at hour h ends the run with a RuntimeError that  *)
(* names the prefix of h: h is the last hour listed, every hour listed     *)
(* before it is smaller, no object of hour h or later was opened, nothing  *)
(* is returned and plot_events is not called.                              *)
C3_ListingFaultAborts ==
    fault.site = "glob" =>
        /\ pc = "raised"
        /\ err.type = "RuntimeError"
        /\ err.cause = fault.type
        /\ listed # <<>>
        /\ ~listed[Len(listed)].ok
        /\ err.prefix = Prefix(date, listed[Len(listed)].hour)
        /\ \A i \in 1..(Len(listed) - 1) :
               listed[i].ok /\ listed[i].hour < listed[Len(listed)].hour
        /\ \A i \in 1..Len(objs) : objs[i].path.hour < listed[Len(listed)].hour
        /\ f = {}
        /\ ~ret.returned
        /\ plotted = <<>>

\* the last hour fails to list after data of an earlier hour was accumulated
C3_Witness ==
    /\ fault.site = "glob"
    /\ listed[Len(listed)].hour = NumHours - 1
    /\ lats # <<>> /\ Len(lats[1]) > 0
    /\ pc = "raised"

C5_MalformedDateIsUsageError ==
    (~IsYMDForm(argv) /\ pc = "raised" /\ ~fs) =>
        (err.type = "SystemExit" /\ err.site = "parse_args")

(* C6: at most one remote file and one dataset are open at any moment,     *)
(* none is open between two objects or when an hour is listed, and none    *)
(* is open once fetch_glm_day has finished, by returning or by raising.    *)
C6_HandlesScopedPerObject ==
    /\ Cardinality(f) <= 1
    /\ Cardinality(ds) <= 1
    /\ pc \in {"glob", "for_path"} => (f = {} /\ ds = {})
    /\ pc \in {"plot_events", "done", "raised"} => (f = {} /\ ds = {})

(* C7: when fetch_glm_day returns, the hours were listed in ascending      *)
(* order, each listing was consumed in lexical order of name, each listed  *)
(* object was opened exactly once and in that order, the returned          *)
(* sequences are the arrays of the opened objects one after the other,     *)
(* and, the objects being well formed, position i of the three sequences   *)
(* comes from one object and one index inside it.                          *)
C7_OrderAndAlignment ==
    ret.returned =>
        /\ \A i \in 1..Len(listed) : listed[i].hour = i - 1
        /\ \A i \in 1..Len(listed) :
               \A j, k \in 1..Len(listed[i].files) :
                   j < k => LexLess(listed[i].files[j].name, listed[i].files[k].name)
        /\ [i \in 1..Len(objs) |-> objs[i].path] = FilesOf(listed)
        /\ ret.lat = ArraysOf(objs, "event_lat")
        /\ ret.lon = ArraysOf(objs, "event_lon")
        /\ ret.energy = ArraysOf(objs, "event_energy")
        /\ WellFormedObjs =>
               \A i \in 1..Len(ret.lat) :
                   /\ ret.lon[i].path = ret.lat[i].path
                   /\ ret.energy[i].path = ret.lat[i].path
                   /\ ret.lon[i].i = ret.lat[i].i
                   /\ ret.energy[i].i = ret.lat[i].i
                   /\ ret.lat[i].field = "event_lat"
                   /\ ret.lon[i].field = "event_lon"
                   /\ ret.energy[i].field = "event_energy"

\* returned after an hour that listed "ab" and "b", each holding events
C7_Witness ==
    /\ ret.returned /\ WellFormedObjs
    /\ Len(listed[NumHours].files) = 2
    /\ listed[NumHours].files[1].name = <<1, 2>>
    /\ listed[NumHours].files[2].name = <<2>>
    /\ objs[1].event_lat = 2 /\ objs[2].event_lat = 2

(* C8: a fault of opening an object, of opening the dataset on it or of    *)
(* reading one of its three fields ends the run with that very error, not  *)
(* wrapped; the objects opened are those listed up to the failing one, no  *)
(* later hour was listed, nothing is returned and plot_events is not       *)
(* called.                                                                 *)
C8_ObjectFaultPropagates ==
    fault.site \in ObjectFaultSites =>
        /\ pc = "raised"
        /\ err = Error(fault.type, fault.site)
        /\ err.type # "RuntimeError"
        /\ Len(listed) = hour + 1
        /\ listed[Len(listed)].hour = hour
        /\ Len(objs) = Len(FilesOf(listed)) - Len(files) + fi
                           - (IF fault.site = "open" THEN 1 ELSE 0)
        /\ f = {}
        /\ ~ret.returned
        /\ plotted = <<>>

\* event_lon is missing after event_lat of the same object was appended
C8_Witness ==
    /\ fault.site = "event_lon"
    /\ pc = "raised"
    /\ Len(lats) = Len(lons) + 1
    /\ Len(lats[Len(lats)]) > 0

(* C9: a run in which no remote call faults lists the hours 0..23 once     *)
(* each in ascending order, fetch_glm_day returns and plot_events is       *)
(* called exactly once.                                                    *)
C9_FaultFreeRunPlotsOnce ==
    (fs /\ fault = NoFault /\ Terminated) =>
        /\ Len(listed) = NumHours
        /\ \A i \in 1..Len(listed) : listed[i].hour = i - 1
        /\ ret.returned
        /\ Len(plotted) = 1
        /\ pc = "done"

(* C10: at the return statement the three concatenations all raise or all  *)
(* succeed; after a fetch without fault, if no object was opened the run   *)
(* ended with the error of concatenating an empty list and nothing was     *)
(* returned, and if objects were opened the fetch returned, with three     *)
(* empty sequences when every opened object held no event.                 *)
C10_EmptyResultOutcome ==
    /\ (pc = "glob" /\ hour = NumHours) =>
           /\ ConcatRaises(lats) = ConcatRaises(lons)
           /\ ConcatRaises(lons) = ConcatRaises(energy)
           /\ ConcatRaises(lats) = (objs = <<>>)
    /\ (fs /\ fault = NoFault /\ pc \in {"plot_events", "done", "raised"}) =>
           IF objs = <<>>
           THEN /\ pc = "raised"
                /\ err = Error("ValueError", "concatenate")
                /\ ret = NoRet
           ELSE /\ ret.returned
                /\ err = NoErr
                /\ (\A i \in 1..Len(objs) :
                        /\ objs[i].event_lat = 0
                        /\ objs[i].event_lon = 0
                        /\ objs[i].event_energy = 0)
                   => ret = EmptyTriple

\* objects were opened, none held an event, and three empty sequences came back
C10_Witness ==
    /\ Len(objs) = 2
    /\ \A i \in 1..Len(objs) : objs[i].event_lat = 0 /\ objs[i].event_lon = 0
                               /\ objs[i].event_energy = 0
    /\ ret = EmptyTriple
    /\ pc = "done"

====
